---- MODULE Spec2Model ----
(***************************************************************************)
(* wsstat: a command-line tool that measures the latency of a WebSocket    *)
(* connection and prints a tiered timing report.                           *)
(*                                                                         *)
(* Two revisions of the program are modelled:                              *)
(*   src/main.go            flags -headers -json -method -text -insecure   *)
(*                          -ro -version -b -v            (Spec)           *)
(*   src/unnamed/part_004   flags -burst -headers -json -text -raw         *)
(*                          -version -insecure -b -q -v   (SpecBurst)      *)
(* Pure functions are additionally exercised on wider input sets (SpecFn). *)
(*                                                                         *)
(* Go strings that the code inspects byte by byte (the raw URI, the header *)
(* spec) are sequences of one-character strings.  Strings that the code    *)
(* only tests for emptiness and copies (-text, -method) are TLA+ strings.  *)
(***************************************************************************)
EXTENDS Integers, Sequences, FiniteSets, TLC

VARIABLES
    pc,        \* position of the invocation in main
    flags,     \* the parsed command line flags (package-level flag variables)
    args,      \* flag.Args(): the positional arguments
    url,       \* the *url.URL returned by parseWSURI, or None
    header,    \* the http.Header returned by parseHeaders
    result,    \* the wsstat.Result returned by the measurement call, or None
    response,  \* the response returned by the measurement call, or None
    err,       \* main's err: the error of the measurement, or None
    calls,     \* the calls made to the go-wsstat package, in order
    stdout,    \* what was printed to standard output, in order
    stderr,    \* what was printed to standard error, in order
    exitCode,  \* the process exit status, or None while running
    wssPrintTemplate,  \* the tiered template of the wss scheme
    wsPrintTemplate,   \* the tiered template of the ws scheme
    fnIn,      \* SpecFn: the input a pure function is applied to
    fnOut,     \* SpecFn: its output, or None before it is applied
    probe      \* part_004: what the go-wsstat call returned to measureLatency

vars == <<pc, flags, args, url, header, result, response, err, calls, stdout, stderr,
          exitCode, wssPrintTemplate, wsPrintTemplate, fnIn, fnOut, probe>>

None == [none |-> TRUE]

(***************************************************************************)
(* Bounds of the model.                                                    *)
(***************************************************************************)
MaxURILen == 4
MaxHdrLen == 4
MaxTick == 2
TicksPerMs == 2
MaxBurst == 5

(***************************************************************************)
(* Package strings: the functions of Go's strings package the code calls.  *)
(***************************************************************************)
\* s[from..]
Tail_(s, from) == SubSeq(s, from, Len(s))

HasPrefix(s, p) == Len(p) <= Len(s) /\ SubSeq(s, 1, Len(p)) = p

HasSuffix(s, p) == Len(p) <= Len(s) /\ SubSeq(s, Len(s) - Len(p) + 1, Len(s)) = p

\* strings.Index: the 1-based position of the first occurrence of sub, 0 if none
Index(s, sub) ==
    LET hits == {i \in 1..(Len(s) - Len(sub) + 1) : SubSeq(s, i, i + Len(sub) - 1) = sub}
    IN IF hits = {} THEN 0 ELSE CHOOSE i \in hits : \A j \in hits : i <= j

\* strings.LastIndex
LastIndex(s, sub) ==
    LET hits == {i \in 1..(Len(s) - Len(sub) + 1) : SubSeq(s, i, i + Len(sub) - 1) = sub}
    IN IF hits = {} THEN 0 ELSE CHOOSE i \in hits : \A j \in hits : i >= j

Contains(s, sub) == Index(s, sub) # 0

\* strings.Split(s, sep) for a one-character separator
RECURSIVE Split(_, _)
Split(s, sep) ==
    LET i == Index(s, sep)
    IN IF i = 0 THEN <<s>>
       ELSE <<SubSeq(s, 1, i - 1)>> \o Split(Tail_(s, i + Len(sep)), sep)

\* strings.SplitN(s, sep, 2)
SplitN2(s, sep) ==
    LET i == Index(s, sep)
    IN IF i = 0 THEN <<s>>
       ELSE <<SubSeq(s, 1, i - 1), Tail_(s, i + Len(sep))>>

IsSpace(c) == c \in {" ", "\t", "\n", "\r"}

\* strings.TrimSpace
RECURSIVE TrimLeft(_)
TrimLeft(s) == IF s # <<>> /\ IsSpace(Head(s)) THEN TrimLeft(Tail(s)) ELSE s

RECURSIVE TrimRight(_)
TrimRight(s) ==
    IF s # <<>> /\ IsSpace(s[Len(s)]) THEN TrimRight(SubSeq(s, 1, Len(s) - 1)) ELSE s

TrimSpace(s) == TrimRight(TrimLeft(s))

LowerLetters ==
    {"a", "b", "c", "e", "g", "h", "l", "m", "o", "p", "r", "s", "t", "w", "x"}
UpperLetters == {"A", "B", "C", "S", "W"}
Digits == {"0", "1", "2", "3", "4", "5", "6", "7", "8", "9"}

LowerOf(c) ==
    CASE c = "A" -> "a" [] c = "B" -> "b" [] c = "C" -> "c"
      [] c = "S" -> "s" [] c = "W" -> "w" [] OTHER -> c

UpperOf(c) ==
    CASE c = "a" -> "A" [] c = "b" -> "B" [] c = "c" -> "C"
      [] c = "s" -> "S" [] c = "w" -> "W" [] OTHER -> c

\* strings.ToLower
ToLower(s) == [i \in 1..Len(s) |-> LowerOf(s[i])]

\* all sequences over alphabet of length at most n
SeqsUpTo(alphabet, n) == UNION {[1..k -> alphabet] : k \in 0..n}

(***************************************************************************)
(* Package net/url as called from parseWSURI (src/main.go:229) and from    *)
(* the url.String() calls of main.  url.Parse is modelled step by step on  *)
(* character sequences.  The inputs of the model contain none of the       *)
(* characters # ? % @ [ ] and no control bytes, so the fragment, query,    *)
(* escape, userinfo and IPv6 branches of url.Parse are not modelled.       *)
(***************************************************************************)
URL(scheme, opaque, host, path) ==
    [Scheme |-> scheme, Opaque |-> opaque, Host |-> host, Path |-> path]

ParseOK(u) == [err |-> "", u |-> u]
ParseErr(msg) == [err |-> msg, u |-> None]

\* url.getScheme: (scheme, rest, err)
RECURSIVE getSchemeAt(_, _)
getSchemeAt(rawURL, i) ==
    IF i > Len(rawURL)
    THEN [scheme |-> <<>>, rest |-> rawURL, err |-> ""]
    ELSE LET c == rawURL[i]
         IN CASE c \in LowerLetters \cup UpperLetters ->
                    getSchemeAt(rawURL, i + 1)
              [] c \in Digits \cup {"+", "-", "."} ->
                    IF i = 1
                    THEN [scheme |-> <<>>, rest |-> rawURL, err |-> ""]
                    ELSE getSchemeAt(rawURL, i + 1)
              [] c = ":" ->
                    IF i = 1
                    THEN [scheme |-> <<>>, rest |-> <<>>, err |-> "missing protocol scheme"]
                    ELSE [scheme |-> SubSeq(rawURL, 1, i - 1),
                          rest |-> Tail_(rawURL, i + 1), err |-> ""]
              [] OTHER ->
                    \* an invalid character, so there is no valid scheme
                    [scheme |-> <<>>, rest |-> rawURL, err |-> ""]

getScheme(rawURL) == getSchemeAt(rawURL, 1)

\* url.validOptionalPort: "" or ":" followed by digits only
validOptionalPort(port) ==
    \/ port = <<>>
    \/ /\ port[1] = ":"
       /\ \A i \in 2..Len(port) : port[i] \in Digits

\* the bytes url.unescape accepts in a host (shouldEscape in mode encodeHost)
HostByteOK(c) ==
    c \in LowerLetters \cup UpperLetters \cup Digits
          \cup {"!", "$", "&", "'", "(", ")", "*", "+", ",", ";", "=", ":", "<", ">"}
          \cup {"-", "_", ".", "~"}

\* url.parseHost: the error message, "" when the host is accepted
parseHostErr(host) ==
    LET i == LastIndex(host, <<":">>)
    IN IF i # 0 /\ ~validOptionalPort(Tail_(host, i))
       THEN "invalid port after host"
       ELSE IF \E k \in 1..Len(host) : ~HostByteOK(host[k])
            THEN "invalid character in host name"
            ELSE ""

\* url.Parse
urlParse(rawURL) ==
    LET gs == getScheme(rawURL)
        scheme == ToLower(gs.scheme)
        rest == gs.rest
    IN IF gs.err # "" THEN ParseErr(gs.err)
       ELSE IF rawURL = <<"*">> THEN ParseOK(URL(<<>>, <<>>, <<>>, <<"*">>))
       ELSE IF ~HasPrefix(rest, <<"/">>) /\ scheme # <<>>
       THEN \* rootless paths are opaque
            ParseOK(URL(scheme, rest, <<>>, <<>>))
       ELSE IF /\ ~HasPrefix(rest, <<"/">>)
               /\ Contains(Split(rest, <<"/">>)[1], <<":">>)
       THEN ParseErr("first path segment in URL cannot contain colon")
       ELSE IF /\ scheme # <<>> \/ ~HasPrefix(rest, <<"/", "/", "/">>)
               /\ HasPrefix(rest, <<"/", "/">>)
       THEN LET auth0 == Tail_(rest, 3)
                i == Index(auth0, <<"/">>)
                authority == IF i = 0 THEN auth0 ELSE SubSeq(auth0, 1, i - 1)
                path == IF i = 0 THEN <<>> ELSE Tail_(auth0, i)
                herr == parseHostErr(authority)
            IN IF herr # "" THEN ParseErr(herr)
               ELSE ParseOK(URL(scheme, <<>>, authority, path))
       ELSE ParseOK(URL(scheme, <<>>, <<>>, rest))

\* url.EscapedPath for the bytes of the model: a space becomes %20
RECURSIVE EscapedPath(_)
EscapedPath(p) ==
    IF p = <<>> THEN <<>>
    ELSE (IF Head(p) = " " THEN <<"%", "2", "0">> ELSE <<Head(p)>>) \o EscapedPath(Tail(p))

\* (*URL).String
URLString(u) ==
    LET s1 == IF u.Scheme # <<>> THEN u.Scheme \o <<":">> ELSE <<>>
        path == EscapedPath(u.Path)
        s2 == IF (u.Scheme # <<>> \/ u.Host # <<>>) /\ (u.Host # <<>> \/ u.Path # <<>>)
              THEN s1 \o <<"/", "/">> \o u.Host
              ELSE s1
        s3 == IF path # <<>> /\ path[1] # "/" /\ u.Host # <<>> THEN s2 \o <<"/">> ELSE s2
        s4 == IF s3 = <<>> /\ Contains(Split(path, <<"/">>)[1], <<":">>)
              THEN <<".", "/">> ELSE s3
    IN IF u.Opaque # <<>> THEN s1 \o u.Opaque ELSE s4 \o path

\* (*URL).Hostname: the host without a valid port
Hostname(u) ==
    LET i == LastIndex(u.Host, <<":">>)
    IN IF i # 0 /\ validOptionalPort(Tail_(u.Host, i))
       THEN SubSeq(u.Host, 1, i - 1) ELSE u.Host

(***************************************************************************)
(* parseWSURI (src/main.go:220-235; src/unnamed/part_004:219-234 is the    *)
(* same code reading *insecure).                                           *)
(***************************************************************************)
\* a mutant of parseWSURI: the insecure flag is not read
parseWSURIIgnoreFlag(rawURI, insecure) ==
    IF ~Contains(rawURI, <<":", "/", "/">>)
    THEN urlParse(<<"w", "s", "s", ":", "/", "/">> \o rawURI)
    ELSE urlParse(rawURI)

parseWSURI(rawURI, insecure) ==
    LET scheme == IF insecure THEN <<"w", "s", ":", "/", "/">>
                  ELSE <<"w", "s", "s", ":", "/", "/">>
        prefixed == IF ~Contains(rawURI, <<":", "/", "/">>)
                    THEN scheme \o rawURI ELSE rawURI
    IN urlParse(prefixed)

(***************************************************************************)
(* Package net/http: http.Header is a map from a key to the list of its    *)
(* values; Header.Add files the value under the canonical form of the key. *)
(***************************************************************************)
\* textproto.validHeaderFieldByte: the token characters of RFC 7230
ValidHeaderFieldByte(c) ==
    c \in LowerLetters \cup UpperLetters \cup Digits
          \cup {"!", "#", "$", "%", "&", "'", "*", "+", "-", ".", "^", "_", "|", "~"}

\* textproto.CanonicalMIMEHeaderKey: a key with a byte that is no token
\* character is returned unchanged; otherwise the first letter and every
\* letter after a hyphen is upper case and the others are lower case
CanonicalMIMEHeaderKey(k) ==
    IF \E i \in 1..Len(k) : ~ValidHeaderFieldByte(k[i])
    THEN k
    ELSE [i \in 1..Len(k) |->
            IF i = 1 \/ k[i - 1] = "-" THEN UpperOf(k[i]) ELSE LowerOf(k[i])]

EmptyHeader == <<>>

\* http.Header.Add
HeaderAdd(h, key, value) ==
    LET k == CanonicalMIMEHeaderKey(key)
    IN IF k \in DOMAIN h
       THEN [h EXCEPT ![k] = Append(@, value)]
       ELSE [x \in DOMAIN h \cup {k} |-> IF x = k THEN <<value>> ELSE h[x]]

HeadersOK(h) == [fatal |-> FALSE, part |-> <<>>, header |-> h]
HeadersFatal(part) == [fatal |-> TRUE, part |-> part, header |-> None]

(***************************************************************************)
(* parseHeaders.  src/main.go:204-217 splits each part with strings.Split; *)
(* src/unnamed/part_004:203-216 splits it with strings.SplitN(part,":",2). *)
(* log.Fatalf ends the process, so a fatal result carries no header.       *)
(***************************************************************************)
\* a mutant of parseHeaderParts: a part that is no name:value pair is skipped
RECURSIVE parseHeaderPartsSkip(_, _)
parseHeaderPartsSkip(headerParts, h) ==
    IF headerParts = <<>> THEN HeadersOK(h)
    ELSE LET part == Head(headerParts)
             parts == Split(part, <<":">>)
         IN IF Len(parts) # 2
            THEN parseHeaderPartsSkip(Tail(headerParts), h)
            ELSE parseHeaderPartsSkip(Tail(headerParts),
                     HeaderAdd(h, TrimSpace(parts[1]), TrimSpace(parts[2])))

\* the loop of src/main.go:208-214 over the remaining parts
RECURSIVE parseHeaderParts(_, _)
parseHeaderParts(headerParts, h) ==
    IF headerParts = <<>> THEN HeadersOK(h)
    ELSE LET part == Head(headerParts)
             parts == Split(part, <<":">>)
         IN IF Len(parts) # 2
            THEN HeadersFatal(part)
            ELSE parseHeaderParts(Tail(headerParts),
                     HeaderAdd(h, TrimSpace(parts[1]), TrimSpace(parts[2])))

\* the loop of src/unnamed/part_004:207-213 over the remaining parts
RECURSIVE parseHeaderPartsB(_, _)
parseHeaderPartsB(headerParts, h) ==
    IF headerParts = <<>> THEN HeadersOK(h)
    ELSE LET part == Head(headerParts)
             parts == SplitN2(part, <<":">>)
         IN IF Len(parts) # 2
            THEN HeadersFatal(part)
            ELSE parseHeaderPartsB(Tail(headerParts),
                     HeaderAdd(h, TrimSpace(parts[1]), TrimSpace(parts[2])))

parseHeaders(inputHeaders) ==
    IF inputHeaders # <<>>
    THEN parseHeaderParts(Split(inputHeaders, <<",">>), EmptyHeader)
    ELSE HeadersOK(EmptyHeader)

parseHeadersB(headers) ==
    IF headers # <<>>
    THEN parseHeaderPartsB(Split(headers, <<",">>), EmptyHeader)
    ELSE HeadersOK(EmptyHeader)

(***************************************************************************)
(* Durations.  A time.Duration is a whole number of ticks, TicksPerMs of   *)
(* them to the millisecond, so that a duration can be a fraction of a      *)
(* millisecond as in Go (where the tick is the nanosecond).                *)
(***************************************************************************)
Millisecond == TicksPerMs

DigitChars == <<"0", "1", "2", "3", "4", "5", "6", "7", "8", "9">>

\* strconv.Itoa and the %d verb, for n >= 0
RECURSIVE Itoa(_)
Itoa(n) ==
    IF n < 10 THEN <<DigitChars[n + 1]>>
    ELSE Itoa(n \div 10) \o <<DigitChars[(n % 10) + 1]>>

Spaces(n) == [i \in 1..n |-> " "]

\* the width of a %7d and of a %-8s verb
PadLeftWidth == 7
PadRightWidth == 8

PadLeft(s, w) == IF Len(s) >= w THEN s ELSE Spaces(w - Len(s)) \o s
PadRight(s, w) == IF Len(s) >= w THEN s ELSE s \o Spaces(w - Len(s))

\* formatPadLeft: fmt.Sprintf("%7dms", int(d/time.Millisecond))
formatPadLeft(d) == PadLeft(Itoa(d \div Millisecond), PadLeftWidth) \o <<"m", "s">>

\* formatPadRight: fmt.Sprintf("%-8s", strconv.Itoa(int(d/time.Millisecond))+"ms")
formatPadRight(d) == PadRight(Itoa(d \div Millisecond) \o <<"m", "s">>, PadRightWidth)

\* customColor wraps the text in the escape sequence of an RGB color
customColor(r, g, b, text) == [rgb |-> <<r, g, b>>, text |-> text]
colorWSOrange(text) == customColor(255, 102, 0, text)
colorTeaGreen(text) == customColor(211, 249, 181, text)

(***************************************************************************)
(* The tiered print templates, a sequence of lines, each a sequence of     *)
(* tokens; the token "%s" is a verb that fmt.Fprintf fills with the next   *)
(* argument.                                                               *)
(***************************************************************************)
WssTemplate == <<
    <<"DNS Lookup", "TCP Connection", "TLS Handshake", "WS Handshake", "Message RTT">>,
    <<"|", "%s", "|", "%s", "|", "%s", "|", "%s", "|", "%s", "|">>,
    <<"|", "|", "|", "|", "|", "|">>,
    <<"|", "DNS lookup:", "%s", "|", "|", "|", "|">>,
    <<"|", "TCP connected:", "%s", "|", "|", "|">>,
    <<"|", "TLS done:", "%s", "|", "|">>,
    <<"|", "WS done:", "%s", "|">>,
    <<"-", "Total:", "%s">> >>

WsTemplate == <<
    <<"DNS Lookup", "TCP Connection", "WS Handshake", "Message RTT">>,
    <<"|", "%s", "|", "%s", "|", "%s", "|", "%s", "|">>,
    <<"|", "|", "|", "|", "|">>,
    <<"|", "DNS lookup:", "%s", "|", "|", "|">>,
    <<"|", "TCP connected:", "%s", "|", "|">>,
    <<"|", "WS done:", "%s", "|">>,
    <<"-", "Total:", "%s">> >>

\* the number of "%s" verbs among the first n tokens of a line
RECURSIVE VerbsBefore(_, _)
VerbsBefore(line, n) ==
    IF n = 0 THEN 0
    ELSE VerbsBefore(line, n - 1) + (IF line[n] = "%s" THEN 1 ELSE 0)

\* the number of "%s" verbs in the first n lines
RECURSIVE VerbsInLines(_, _)
VerbsInLines(template, n) ==
    IF n = 0 THEN 0
    ELSE VerbsInLines(template, n - 1) + VerbsBefore(template[n], Len(template[n]))

\* a literal piece of text of a printed line
Lit(t) == [lit |-> t]

\* fmt.Fprintf(os.Stdout, template, a...): the k-th verb takes the k-th argument
Fprintf(template, a) ==
    [l \in 1..Len(template) |->
        [t \in 1..Len(template[l]) |->
            IF template[l][t] = "%s"
            THEN a[VerbsInLines(template, l - 1) + VerbsBefore(template[l], t)]
            ELSE Lit(template[l][t])]]

Blank == <<>>

\* a mutant of printTimingResultsTiered: both schemes use the wss layout
printTimingResultsTieredOneLayout(wssT, wsT, u, r) ==
    <<Blank>> \o
    Fprintf(wssT, <<
        colorTeaGreen(formatPadLeft(r.DNSLookup)),
        colorTeaGreen(formatPadLeft(r.TCPConnection)),
        colorTeaGreen(formatPadLeft(r.TLSHandshake)),
        colorTeaGreen(formatPadLeft(r.WSHandshake)),
        colorTeaGreen(formatPadLeft(r.MessageRoundTrip)),
        colorTeaGreen(formatPadRight(r.DNSLookupDone)),
        colorTeaGreen(formatPadRight(r.TCPConnected)),
        colorTeaGreen(formatPadRight(r.TLSHandshakeDone)),
        colorTeaGreen(formatPadRight(r.WSHandshakeDone)),
        colorWSOrange(formatPadRight(r.TotalTime))>>)
    \o <<Blank>>

(***************************************************************************)
(* printTimingResultsTiered (src/main.go:382-415): the lines it prints.    *)
(* src/unnamed/part_004:371-404 is the same code with the round-trip field *)
(* named MessageRTT; the model names the field MessageRoundTrip in both.   *)
(***************************************************************************)
printTimingResultsTiered(wssT, wsT, u, r) ==
    <<Blank>> \o
    (CASE u.Scheme = <<"w", "s", "s">> ->
            Fprintf(wssT, <<
                colorTeaGreen(formatPadLeft(r.DNSLookup)),
                colorTeaGreen(formatPadLeft(r.TCPConnection)),
                colorTeaGreen(formatPadLeft(r.TLSHandshake)),
                colorTeaGreen(formatPadLeft(r.WSHandshake)),
                colorTeaGreen(formatPadLeft(r.MessageRoundTrip)),
                colorTeaGreen(formatPadRight(r.DNSLookupDone)),
                colorTeaGreen(formatPadRight(r.TCPConnected)),
                colorTeaGreen(formatPadRight(r.TLSHandshakeDone)),
                colorTeaGreen(formatPadRight(r.WSHandshakeDone)),
                colorWSOrange(formatPadRight(r.TotalTime))>>)
       [] u.Scheme = <<"w", "s">> ->
            Fprintf(wsT, <<
                colorTeaGreen(formatPadLeft(r.DNSLookup)),
                colorTeaGreen(formatPadLeft(r.TCPConnection)),
                colorTeaGreen(formatPadLeft(r.WSHandshake)),
                colorTeaGreen(formatPadLeft(r.MessageRoundTrip)),
                colorTeaGreen(formatPadRight(r.DNSLookupDone)),
                colorTeaGreen(formatPadRight(r.TCPConnected)),
                colorTeaGreen(formatPadRight(r.WSHandshakeDone)),
                colorWSOrange(formatPadRight(r.TotalTime))>>)
       [] OTHER -> <<>>)
    \o <<Blank>>

(***************************************************************************)
(* wsstat.Result, the record the go-wsstat package returns.  Its done-at   *)
(* fields are the running sums of the phase durations and TotalTime is the *)
(* sum of all of them; TLS fields are present exactly for the wss scheme.  *)
(***************************************************************************)
SchemeWS == <<"w", "s">>
SchemeWSS == <<"w", "s", "s">>

TLSStateOf(secure) ==
    IF secure
    THEN [Version |-> "TLS 1.3", CipherSuite |-> "TLS_AES_128_GCM_SHA256",
          PeerCertificates |-> <<[Subject |-> "CN=x", Issuer |-> "CN=ca",
                                  NotBefore |-> "t0", NotAfter |-> "t1"]>>]
    ELSE None

MkResult(u, ips, reqH, respH, count, dns, tcp, tls, ws, rtt) ==
    [URL |-> u, IPs |-> ips, TLSState |-> TLSStateOf(u.Scheme = SchemeWSS),
     RequestHeaders |-> reqH, ResponseHeaders |-> respH, MessageCount |-> count,
     DNSLookup |-> dns, TCPConnection |-> tcp, TLSHandshake |-> tls,
     WSHandshake |-> ws, MessageRoundTrip |-> rtt,
     DNSLookupDone |-> dns, TCPConnected |-> dns + tcp,
     TLSHandshakeDone |-> dns + tcp + tls,
     WSHandshakeDone |-> dns + tcp + tls + ws,
     TotalTime |-> dns + tcp + tls + ws + rtt]

\* the Result of the end-to-end scenario: 10, 20, 30, 15 and 5 ms
ExampleResult(u) ==
    MkResult(u, <<"192.0.2.1">>, EmptyHeader, EmptyHeader, 1,
             10 * Millisecond, 20 * Millisecond, 30 * Millisecond,
             15 * Millisecond, 5 * Millisecond)

(***************************************************************************)
(* The inputs the pure functions are applied to (SpecFn, defined below).   *)
(***************************************************************************)
Str_example_org == <<"e", "x", "a", "m", "p", "l", "e", ".", "o", "r", "g">>

URIAlphabet == {"w", "s", ":", "/", " "}
CuratedURIs == {
    Str_example_org,
    <<"w", "s", ":", "/", "/", "x">>,
    <<"w", "s", "s", ":", "/", "/", "x">>,
    <<"W", "S", "S", ":", "/", "/", "x">>,
    <<"h", "t", "t", "p", ":", "/", "/", "x">>,
    <<"x", ":", "8", "0">>,
    <<"x", ":", "8", "a">>,
    <<"x", "/", "a", " ", "b">> }
URIInputs == SeqsUpTo(URIAlphabet, MaxURILen) \cup CuratedURIs

HdrAlphabet == {"a", "B", ":", ",", " "}
Str_a1_b2_c3 == <<"a", ":", "1", ",", " ", "b", ":", " ", "2", ",", "c", ":", "3">>
CuratedHeaders == {
    Str_a1_b2_c3,
    <<"a", ":", "1", ",", "a", ":", "2">>,
    <<"a", ":", "h", ":", "/", "/", "x">>,
    <<"x", "-", "a", "b", ":", "1">> }
HeaderInputs == SeqsUpTo(HdrAlphabet, MaxHdrLen) \cup CuratedHeaders

TargetX(scheme) == URL(scheme, <<>>, <<"x">>, <<>>)

\* the Results of a target: every phase of 0..MaxTick ticks, the TLS phase
\* being zero unless the scheme is wss
ResultsOf(u) ==
    {MkResult(u, <<"192.0.2.1">>, EmptyHeader, EmptyHeader, 1, d[1], d[2],
              IF u.Scheme = SchemeWSS THEN d[3] ELSE 0, d[4], d[5]) :
        d \in [1..5 -> 0..MaxTick]}
    \cup {ExampleResult(u)}

RenderSchemes == {SchemeWS, SchemeWSS, <<"h", "t", "t", "p">>}


(***************************************************************************)
(* Printing.  A printed line is a sequence of tokens: Lit (literal text),  *)
(* a colored cell, or Val (a formatted value).  Go ranges over a map in an *)
(* unspecified order, so the functions that range over a header set take   *)
(* the order of its keys as a parameter.                                   *)
(***************************************************************************)
Val(v) == [val |-> v]

\* the orders in which a range over the map h can visit its keys
KeyOrders(h) ==
    {o \in [1..Cardinality(DOMAIN h) -> DOMAIN h] :
        \A i, j \in DOMAIN o : i # j => o[i] # o[j]}

\* tls.VersionName, tls.CipherSuiteName: the names are kept in the TLS state
CertLines(certs) ==
    [i \in 1..(5 * Len(certs)) |->
        LET c == certs[((i - 1) \div 5) + 1]
        IN CASE (i - 1) % 5 = 0 -> <<colorTeaGreen("Certificate"), Val(((i - 1) \div 5) + 1)>>
             [] (i - 1) % 5 = 1 -> <<Lit("Subject:"), Val(c.Subject)>>
             [] (i - 1) % 5 = 2 -> <<Lit("Issuer:"), Val(c.Issuer)>>
             [] (i - 1) % 5 = 3 -> <<Lit("Not Before:"), Val(c.NotBefore)>>
             [] OTHER -> <<Lit("Not After:"), Val(c.NotAfter)>>]

\* the lines of a range over a header set in key order o (strings.Join of the values)
HeaderLines(h, o) == [i \in 1..Len(o) |-> <<colorTeaGreen(o[i]), Val(h[o[i]])>>]

WSVersionKey ==
    <<"S", "e", "c", "-", "W", "e", "b", "S", "o", "c", "k", "e", "t", "-",
      "V", "e", "r", "s", "i", "o", "n">>

\* src/main.go:290-294: the WS version line, printed when the key is met
WSVersionLines(h) ==
    IF WSVersionKey \in DOMAIN h
    THEN <<<<colorWSOrange("WS version"), Val(h[WSVersionKey])>>>>
    ELSE <<>>

(***************************************************************************)
(* printRequestDetails (src/main.go:238-298): the lines it prints, given   *)
(* the flags and the orders reqO, respO of the two header ranges.          *)
(***************************************************************************)
printRequestDetails(f, r, reqO, respO) ==
    <<Blank>> \o
    (IF f.basic
     THEN <<<<colorTeaGreen("URL"), Val(Hostname(r.URL))>>>>
          \o (IF Len(r.IPs) > 0 THEN <<<<colorTeaGreen("IP"), Val(r.IPs[1])>>>> ELSE <<>>)
     ELSE IF f.verbose
     THEN <<<<colorWSOrange("Target")>>, <<colorTeaGreen("URL"), Val(Hostname(r.URL))>>>>
          \o [i \in 1..Len(r.IPs) |-> <<colorTeaGreen("IP"), Val(r.IPs[i])>>]
          \o <<Blank>>
          \o (IF r.TLSState # None
              THEN <<<<colorWSOrange("TLS")>>,
                     <<colorTeaGreen("Version"), Val(r.TLSState.Version)>>,
                     <<colorTeaGreen("Cipher Suite"), Val(r.TLSState.CipherSuite)>>>>
                   \o CertLines(r.TLSState.PeerCertificates)
                   \o <<Blank>>
              ELSE <<>>)
          \o <<<<colorWSOrange("Request headers")>>>>
          \o HeaderLines(r.RequestHeaders, reqO)
          \o <<<<colorWSOrange("Response headers")>>>>
          \o HeaderLines(r.ResponseHeaders, respO)
     ELSE <<<<colorWSOrange("Target"), Val(Hostname(r.URL))>>>>
          \o [i \in 1..Len(r.IPs) |-> <<colorWSOrange("IP"), Val(r.IPs[i])>>]
          \o WSVersionLines(r.RequestHeaders)
          \o (IF r.TLSState # None
              THEN <<<<colorWSOrange("TLS version"), Val(r.TLSState.Version)>>>>
              ELSE <<>>))

\* printTimingResultsBasic (src/main.go:343-347)
printTimingResultsBasic(r) ==
    <<Blank,
      <<Lit("Total time"), colorWSOrange(Itoa(r.TotalTime \div Millisecond) \o <<"m", "s">>)>>,
      Blank>>

\* printTimingResults (src/main.go:334-340)
printTimingResults(f, wssT, wsT, u, r) ==
    IF f.basic THEN printTimingResultsBasic(r)
    ELSE printTimingResultsTiered(wssT, wsT, u, r)

(***************************************************************************)
(* Responses.  The response of a measurement call is nil (None) or a value *)
(* of one of the dynamic types the code switches on.                       *)
(***************************************************************************)
MapResponse(keys) == [type |-> "map[string]interface{}", keys |-> keys]
ArrayResponse == [type |-> "[]interface{}", keys |-> {}]
BytesResponse == [type |-> "[]byte", keys |-> {}]
StringResponse == [type |-> "string", keys |-> {}]

\* json.Marshal of a map and the %v verb give different texts of a value
JSONText(v) == [enc |-> "json", v |-> v]
NativeText(v) == [enc |-> "%v", v |-> v]

\* printResponse (src/main.go:301-331): the lines it prints
printResponse(f, resp) ==
    IF resp = None THEN <<>>
    ELSE LET baseMessage == IF f.responseOnly THEN <<>>
                            ELSE <<colorWSOrange("Response"), Lit(": ")>>
         IN (IF f.responseOnly THEN <<>> ELSE <<Blank>>)
            \o (CASE resp.type = "map[string]interface{}" ->
                        IF f.jsonMessage # "" \/ f.jsonMethod # ""
                        THEN <<baseMessage \o <<JSONText(resp)>>>>
                        ELSE <<baseMessage \o <<NativeText(resp)>>>>
                  [] resp.type = "[]interface{}" -> <<baseMessage \o <<NativeText(resp)>>>>
                  [] resp.type = "[]byte" -> <<baseMessage \o <<NativeText(resp)>>>>
                  [] OTHER -> <<>>)
            \o (IF f.responseOnly THEN <<>> ELSE <<Blank>>)

(***************************************************************************)
(* handleConnectionError (src/main.go:196-201): the message log.Fatalf     *)
(* prints before it ends the process with status 1.  An error message is a *)
(* sequence of words; a Go error is a record with its message, Error.      *)
(***************************************************************************)
GoError(words) == [Error |-> words]

TLSDiagnostic ==
    <<"tls:", "first", "record", "does", "not", "look", "like", "a", "TLS", "handshake">>

InsecureHint ==
    <<"Is the target server using a secure WS connection?", "If not, use the",
      "'-insecure'", "flag", "or specify the correct scheme in the input.">>

\* a mutant of handleConnectionError: the hint is given for every failure
handleConnectionErrorAlwaysHint(e, u) ==
    [msg |-> "Error establishing WS connection to", url |-> u, err |-> e.Error,
     hint |-> InsecureHint]

handleConnectionError(e, u) ==
    IF Contains(e.Error, TLSDiagnostic)
    THEN [msg |-> "Error establishing WS connection to", url |-> u, err |-> e.Error,
          hint |-> InsecureHint]
    ELSE [msg |-> "Error establishing WS connection to", url |-> u, err |-> e.Error,
          hint |-> <<>>]

(***************************************************************************)
(* The go-wsstat package: what a measurement call can return.  The call is *)
(* external; it either fails with a transport error or returns a Result    *)
(* and, for the calls that send a message, a response.                     *)
(***************************************************************************)
TransportErrors == {
    <<"dial", "tcp:", "connection", "refused">>,
    TLSDiagnostic,
    <<"failed", "to", "dial:">> \o TLSDiagnostic,
    <<"tls:", "first", "record", "does", "not", "look", "like", "a", "TLS", "alert">> }

Str_Host == <<"H", "o", "s", "t">>
Str_Upgrade == <<"U", "p", "g", "r", "a", "d", "e">>

EchoedRequestHeaders ==
    [k \in {WSVersionKey, Str_Host} |-> IF k = Str_Host THEN <<"x">> ELSE <<"13">>]
EchoedResponseHeaders ==
    [k \in {Str_Upgrade} |-> <<"websocket">>]

\* the Results a successful call on target u with count messages can return
ProcResults(u, count) ==
    {MkResult(u, <<"192.0.2.1", "192.0.2.2">>, EchoedRequestHeaders,
              EchoedResponseHeaders, count,
              10 * Millisecond, 20 * Millisecond,
              IF u.Scheme = SchemeWSS THEN 30 * Millisecond ELSE 0,
              15 * Millisecond, 5 * Millisecond),
     MkResult(u, <<>>, EmptyHeader, EmptyHeader, count, 1, 1, 0, 0, 1)}

MessageResponses ==
    {MapResponse({"echo"}), MapResponse({"jsonrpc", "result"}),
     ArrayResponse, BytesResponse, StringResponse}

JSONEcho == "{\"echo\":\"hello\"}"
JSONRPCReply == "{\"jsonrpc\":\"2.0\",\"result\":1}"

\* json.Unmarshal of a text into a map, for the texts of the model: three
\* JSON objects; any other text ("{", "hello") is no JSON object
jsonUnmarshal(text) ==
    CASE text = "{}" -> [err |-> "", v |-> MapResponse({})]
      [] text = JSONEcho -> [err |-> "", v |-> MapResponse({"echo"})]
      [] text = JSONRPCReply -> [err |-> "", v |-> MapResponse({"jsonrpc", "result"})]
      [] OTHER -> [err |-> "invalid character", v |-> None]

\* the JSON-RPC envelope of src/main.go:135-143
Envelope(method) == [method |-> method, id |-> "1", jsonrpc |-> "2.0"]

(***************************************************************************)
(* Spec: one invocation of src/main.go.                                    *)
(***************************************************************************)
ProcURIs == {
    Str_example_org,
    <<"w", "s", ":", "/", "/", "x">>,
    <<"h", "t", "t", "p", ":", "/", "/", "x">>,
    <<"x", " ", "y">> }

ProcHeaders == {
    <<>>,
    <<"a", ":", "1">>,
    <<"a">>,
    <<"a", ":", "h", ":", "x">> }

ArgLists == {<<>>} \cup {<<u>> : u \in ProcURIs} \cup {<<Str_example_org, Str_example_org>>}

Flags == [
    inputHeaders : ProcHeaders,
    jsonMessage : {"", "{}", "{"},
    jsonMethod : {"", "m"},
    textMessage : {"", "hello"},
    insecure : BOOLEAN,
    responseOnly : BOOLEAN,
    showVersion : BOOLEAN,
    basic : BOOLEAN,
    verbose : BOOLEAN ]

Init ==
    /\ pc = "main"
    /\ flags \in Flags
    /\ args \in ArgLists
    /\ url = None /\ header = None /\ result = None /\ response = None
    /\ err = None
    /\ calls = <<>> /\ stdout = <<>> /\ stderr = <<>> /\ exitCode = None
    /\ wssPrintTemplate = WssTemplate /\ wsPrintTemplate = WsTemplate
    /\ probe = None
    /\ fnIn = None /\ fnOut = None

Usage == <<Lit("Usage:  wsstat [options] <url>")>>

\* os.Exit(code), and log.Fatalf which prints to stderr and exits with status 1
Exit(code) == pc' = "exit" /\ exitCode' = code
Fatalf(line) == stderr' = Append(stderr, line) /\ Exit(1)

\* a mutant of Validate: the version flag is looked at after the other checks
ValidateVersionLast ==
    /\ pc = "main"
    /\ IF flags.basic /\ flags.verbose
       THEN /\ stdout' = stdout \o
                <<<<Lit("The basic and verbose flags are mutually exclusive, choose one.")>>,
                  Blank>>
            /\ stderr' = Append(stderr, Usage)
            /\ Exit(2)
       ELSE IF Len(args) # 1
       THEN /\ stderr' = Append(stderr, Usage)
            /\ Exit(2)
            /\ UNCHANGED stdout
       ELSE IF flags.textMessage # "" /\ flags.jsonMessage # ""
       THEN /\ stdout' = stdout \o
                <<<<Lit("The message options are mutually exclusive, choose one.")>>,
                  Blank>>
            /\ stderr' = Append(stderr, Usage)
            /\ Exit(2)
       ELSE IF flags.showVersion
       THEN /\ stdout' = Append(stdout, <<Lit("Version:"), Val("unknown")>>)
            /\ Exit(0)
            /\ UNCHANGED stderr
       ELSE /\ pc' = "parseWSURI"
            /\ UNCHANGED <<stdout, stderr, exitCode>>
    /\ UNCHANGED <<flags, args, url, header, result, response, calls,
                   wssPrintTemplate, wsPrintTemplate, err, fnIn, fnOut, probe>>

\* src/main.go:85-108: flag.Parse and the checks of the flags and arguments
Validate ==
    /\ pc = "main"
    /\ IF flags.showVersion
       THEN /\ stdout' = Append(stdout, <<Lit("Version:"), Val("unknown")>>)
            /\ Exit(0)
            /\ UNCHANGED stderr
       ELSE IF flags.basic /\ flags.verbose
       THEN /\ stdout' = stdout \o
                <<<<Lit("The basic and verbose flags are mutually exclusive, choose one.")>>,
                  Blank>>
            /\ stderr' = Append(stderr, Usage)
            /\ Exit(2)
       ELSE IF Len(args) # 1
       THEN /\ stderr' = Append(stderr, Usage)
            /\ Exit(2)
            /\ UNCHANGED stdout
       ELSE IF flags.textMessage # "" /\ flags.jsonMessage # ""
       THEN /\ stdout' = stdout \o
                <<<<Lit("The message options are mutually exclusive, choose one.")>>,
                  Blank>>
            /\ stderr' = Append(stderr, Usage)
            /\ Exit(2)
       ELSE /\ pc' = "parseWSURI"
            /\ UNCHANGED <<stdout, stderr, exitCode>>
    /\ UNCHANGED <<flags, args, url, header, result, response, calls,
                   wssPrintTemplate, wsPrintTemplate, err, fnIn, fnOut, probe>>

\* src/main.go:110-113
ResolveURI ==
    /\ pc = "parseWSURI"
    /\ LET p == parseWSURI(args[1], flags.insecure)
       IN IF p.err # ""
          THEN /\ Fatalf(<<Lit("Error parsing input URI:"), Val(p.err)>>)
               /\ UNCHANGED url
          ELSE /\ url' = p.u
               /\ pc' = "parseHeaders"
               /\ UNCHANGED <<stderr, exitCode>>
    /\ UNCHANGED <<flags, args, header, result, response, calls, stdout,
                   wssPrintTemplate, wsPrintTemplate, err, fnIn, fnOut, probe>>

\* src/main.go:115
BuildHeaders ==
    /\ pc = "parseHeaders"
    /\ LET h == parseHeaders(flags.inputHeaders)
       IN IF h.fatal
          THEN /\ Fatalf(<<Lit("Invalid header format:"), Val(h.part)>>)
               /\ UNCHANGED header
          ELSE /\ header' = h.header
               /\ pc' = "measure"
               /\ UNCHANGED <<stderr, exitCode>>
    /\ UNCHANGED <<flags, args, url, result, response, calls, stdout,
                   wssPrintTemplate, wsPrintTemplate, err, fnIn, fnOut, probe>>

Call(fn, msg) == [fn |-> fn, url |-> url, msg |-> msg, header |-> header]

\* src/main.go:118-149: the measurement call the flags select is made
MeasureCall ==
    /\ pc = "measure"
    /\ IF flags.textMessage # ""
       THEN /\ calls' = Append(calls, Call("MeasureLatency", flags.textMessage))
            /\ pc' = "measuring"
            /\ UNCHANGED <<stderr, exitCode>>
       ELSE IF flags.jsonMessage # ""
       THEN LET d == jsonUnmarshal(flags.jsonMessage)
            IN IF d.err # ""
               THEN /\ Fatalf(<<Lit("Error unmarshalling JSON message:"), Val(d.err)>>)
                    /\ UNCHANGED calls
               ELSE /\ calls' = Append(calls, Call("MeasureLatencyJSON", d.v))
                    /\ pc' = "measuring"
                    /\ UNCHANGED <<stderr, exitCode>>
       ELSE IF flags.jsonMethod # ""
       THEN /\ calls' = Append(calls,
                    Call("MeasureLatencyJSON", Envelope(flags.jsonMethod)))
            /\ pc' = "measuring"
            /\ UNCHANGED <<stderr, exitCode>>
       ELSE /\ calls' = Append(calls, Call("MeasureLatencyPing", None))
            /\ pc' = "measuring"
            /\ UNCHANGED <<stderr, exitCode>>
    /\ UNCHANGED <<flags, args, url, header, result, response, stdout,
                   wssPrintTemplate, wsPrintTemplate, err, fnIn, fnOut, probe>>

\* a mutant of MeasureReturn: a failed call is made again
MeasureReturnRetry ==
    /\ pc = "measuring"
    /\ \/ \E e \in TransportErrors :
            /\ err' = GoError(e)
            /\ pc' = "measure"
            /\ UNCHANGED <<result, response, stderr, exitCode>>
       \/ \E r \in ProcResults(url, 1) :
          \E resp \in IF calls[Len(calls)].fn = "MeasureLatencyPing"
                      THEN {None} ELSE MessageResponses :
            /\ result' = r
            /\ response' = resp
            /\ err' = None
            /\ pc' = "print"
            /\ UNCHANGED <<stderr, exitCode>>
    /\ UNCHANGED <<flags, args, url, header, calls, stdout,
                   wssPrintTemplate, wsPrintTemplate, fnIn, fnOut, probe>>

\* src/main.go:119-152: the call returns; a failure goes to handleConnectionError
MeasureReturn ==
    /\ pc = "measuring"
    /\ \/ \E e \in TransportErrors :
            /\ err' = GoError(e)
            /\ Fatalf(<<handleConnectionError(GoError(e), URLString(url))>>)
            /\ UNCHANGED <<result, response>>
       \/ \E r \in ProcResults(url, 1) :
          \E resp \in IF calls[Len(calls)].fn = "MeasureLatencyPing"
                      THEN {None} ELSE MessageResponses :
            /\ result' = r
            /\ response' = resp
            /\ err' = None
            /\ pc' = "print"
            /\ UNCHANGED <<stderr, exitCode>>
    /\ UNCHANGED <<flags, args, url, header, calls, stdout,
                   wssPrintTemplate, wsPrintTemplate, fnIn, fnOut, probe>>

\* a mutant of PrintResults: the timing results come before the request details
PrintResultsTimingFirst ==
    /\ pc = "print"
    /\ IF \/ ~flags.responseOnly
          \/ (flags.jsonMessage = "" /\ flags.jsonMethod = "" /\ flags.textMessage = "")
       THEN \E reqO \in KeyOrders(result.RequestHeaders) :
            \E respO \in KeyOrders(result.ResponseHeaders) :
                stdout' = stdout
                    \o printTimingResults(flags, wssPrintTemplate, wsPrintTemplate,
                                          url, result)
                    \o printRequestDetails(flags, result, reqO, respO)
       ELSE UNCHANGED stdout
    /\ pc' = "printResponse"
    /\ UNCHANGED <<flags, args, url, header, result, response, calls, stderr,
                   exitCode, wssPrintTemplate, wsPrintTemplate, err, fnIn, fnOut, probe>>

\* src/main.go:155-162: the request details and the timing results
PrintResults ==
    /\ pc = "print"
    /\ IF \/ ~flags.responseOnly
          \/ (flags.jsonMessage = "" /\ flags.jsonMethod = "" /\ flags.textMessage = "")
       THEN \E reqO \in KeyOrders(result.RequestHeaders) :
            \E respO \in KeyOrders(result.ResponseHeaders) :
                stdout' = stdout
                    \o printRequestDetails(flags, result, reqO, respO)
                    \o printTimingResults(flags, wssPrintTemplate, wsPrintTemplate,
                                          url, result)
       ELSE UNCHANGED stdout
    /\ pc' = "printResponse"
    /\ UNCHANGED <<flags, args, url, header, result, response, calls, stderr,
                   exitCode, wssPrintTemplate, wsPrintTemplate, err, fnIn, fnOut, probe>>

\* src/main.go:164-166: the response is printed and main returns
PrintResponse ==
    /\ pc = "printResponse"
    /\ stdout' = stdout \o printResponse(flags, response)
    /\ Exit(0)
    /\ UNCHANGED <<flags, args, url, header, result, response, calls, stderr,
                   wssPrintTemplate, wsPrintTemplate, err, fnIn, fnOut, probe>>

Next ==
    \/ Validate
    \/ ResolveURI
    \/ BuildHeaders
    \/ MeasureCall
    \/ MeasureReturn
    \/ PrintResults
    \/ PrintResponse

Spec == Init /\ [][Next]_vars

(***************************************************************************)
(* SpecBurst: one invocation of src/unnamed/part_004, the revision with    *)
(* the -burst, -raw and -q flags.  Its definitions carry the suffix B      *)
(* where src/main.go has a definition of the same name.                    *)
(***************************************************************************)
FlagsB == [
    burst : -1..MaxBurst,
    inputHeaders : ProcHeaders,
    jsonMethod : {"", "m"},
    textMessage : {"", "hello"},
    rawOutput : BOOLEAN,
    showVersion : BOOLEAN,
    insecure : BOOLEAN,
    basic : BOOLEAN,
    quiet : BOOLEAN,
    verbose : BOOLEAN ]

InitB ==
    /\ pc = "main"
    /\ flags \in FlagsB
    /\ args \in ArgLists
    /\ url = None /\ header = None /\ result = None /\ response = None
    /\ err = None
    /\ calls = <<>> /\ stdout = <<>> /\ stderr = <<>> /\ exitCode = None
    /\ wssPrintTemplate = WssTemplate /\ wsPrintTemplate = WsTemplate
    /\ probe = None
    /\ fnIn = None /\ fnOut = None

\* strings.Replace(line, old, new, 1) on the tokens of a line
ReplaceInLine(line, old, new) ==
    LET i == Index(line, <<old>>)
    IN IF i = 0 THEN line ELSE [line EXCEPT ![i] = new]

\* a mutant of ReplaceFirst: the template is left as it is
ReplaceFirstNothing(template, old, new) == template

\* strings.Replace(template, old, new, 1): the first occurrence only
ReplaceFirst(template, old, new) ==
    LET hits == {l \in 1..Len(template) : Contains(template[l], <<old>>)}
    IN IF hits = {} THEN template
       ELSE LET l == CHOOSE x \in hits : \A y \in hits : x <= y
            IN [template EXCEPT ![l] = ReplaceInLine(@, old, new)]

\* a mutant of parseValidateInputErr: the messaging flags are not checked
parseValidateInputErrNoMsgCheck(f, a) ==
    IF (f.basic /\ f.verbose) \/ (f.basic /\ f.quiet) \/ (f.verbose /\ f.quiet)
    THEN "mutually exclusive verbosity flags"
    ELSE IF Len(a) # 1
    THEN "invalid number of arguments"
    ELSE IF parseWSURI(a[1], f.insecure).err # ""
    THEN "error parsing input URI"
    ELSE ""

\* parseValidateInput (src/unnamed/part_004:407-439): the error, "" if none
parseValidateInputErr(f, a) ==
    IF (f.basic /\ f.verbose) \/ (f.basic /\ f.quiet) \/ (f.verbose /\ f.quiet)
    THEN "mutually exclusive verbosity flags"
    ELSE IF f.textMessage # "" /\ f.jsonMethod # ""
    THEN "mutually exclusive messaging flags"
    ELSE IF Len(a) # 1
    THEN "invalid number of arguments"
    ELSE IF parseWSURI(a[1], f.insecure).err # ""
    THEN "error parsing input URI"
    ELSE ""

\* src/unnamed/part_004:82-87 and 407-439: main calls parseValidateInput
ParseValidateInput ==
    /\ pc = "main"
    /\ IF flags.showVersion
       THEN /\ stdout' = Append(stdout, <<Lit("Version:"), Val("unknown")>>)
            /\ Exit(0)
            /\ UNCHANGED <<stderr, url, wssPrintTemplate, wsPrintTemplate>>
       ELSE LET e == parseValidateInputErr(flags, args)
            IN IF e # ""
               THEN /\ stdout' = stdout \o
                        <<<<Lit("Error parsing input:"), Val(e)>>, Blank>>
                    /\ stderr' = Append(stderr, Usage)
                    /\ Exit(1)
                    /\ UNCHANGED <<url, wssPrintTemplate, wsPrintTemplate>>
               ELSE /\ url' = parseWSURI(args[1], flags.insecure).u
                    /\ IF flags.burst > 1
                       THEN /\ wssPrintTemplate' = ReplaceFirst(wssPrintTemplate,
                                    "Message RTT", "Mean Message RTT")
                            /\ wsPrintTemplate' = ReplaceFirst(wsPrintTemplate,
                                    "Message RTT", "Mean Message RTT")
                       ELSE UNCHANGED <<wssPrintTemplate, wsPrintTemplate>>
                    /\ pc' = "parseHeaders"
                    /\ UNCHANGED <<stdout, stderr, exitCode>>
    /\ UNCHANGED <<flags, args, header, result, response, calls, err, fnIn, fnOut, probe>>

\* src/unnamed/part_004:89
BuildHeadersB ==
    /\ pc = "parseHeaders"
    /\ LET h == parseHeadersB(flags.inputHeaders)
       IN IF h.fatal
          THEN /\ Fatalf(<<Lit("Invalid header format:"), Val(h.part)>>)
               /\ UNCHANGED header
          ELSE /\ header' = h.header
               /\ pc' = "measure"
               /\ UNCHANGED <<stderr, exitCode>>
    /\ UNCHANGED <<flags, args, url, result, response, calls, stdout,
                   wssPrintTemplate, wsPrintTemplate, err, fnIn, fnOut, probe>>

\* a mutant of Copies: one message whatever the burst count
CopiesOnce(n, v) == <<v>>

\* make([]T, n) followed by the loop that fills it with n copies of v
Copies(n, v) == [i \in 1..n |-> v]

\* a Go run-time panic prints the panic and ends the process with status 2
Panic(what) == stderr' = Append(stderr, <<Lit("panic:"), Val(what)>>) /\ Exit(2)

\* measureLatency (src/unnamed/part_004:146-197): the call the flags select
\* is made; make panics on a negative length
MeasureLatencyCall ==
    /\ pc = "measure"
    /\ IF flags.textMessage # ""
       THEN IF flags.burst < 0
            THEN Panic("makeslice: len out of range") /\ UNCHANGED calls
            ELSE /\ calls' = Append(calls, Call("MeasureLatencyBurst",
                                Copies(flags.burst, flags.textMessage)))
                 /\ pc' = "measuring"
                 /\ UNCHANGED <<stderr, exitCode>>
       ELSE IF flags.jsonMethod # ""
       THEN IF flags.burst < 0
            THEN Panic("makeslice: len out of range") /\ UNCHANGED calls
            ELSE /\ calls' = Append(calls, Call("MeasureLatencyJSONBurst",
                                Copies(flags.burst, Envelope(flags.jsonMethod))))
                 /\ pc' = "measuring"
                 /\ UNCHANGED <<stderr, exitCode>>
       ELSE /\ calls' = Append(calls, Call("MeasureLatencyPingBurst", flags.burst))
            /\ pc' = "measuring"
            /\ UNCHANGED <<stderr, exitCode>>
    /\ UNCHANGED <<flags, args, url, header, result, response, stdout,
                   wssPrintTemplate, wsPrintTemplate, err, fnIn, fnOut, probe>>

\* handleConnectionError (src/unnamed/part_004:137-142): the error it returns
handleConnectionErrorB(e, u) ==
    IF Contains(e.Error, TLSDiagnostic)
    THEN [msg |-> "error establishing secure WS connection to", url |-> u,
          err |-> e.Error]
    ELSE [msg |-> "error establishing WS connection to", url |-> u, err |-> e.Error]

StringListResponse(items) == [type |-> "[]string", items |-> items]
StringValue(text) == [type |-> "string", text |-> text]

ResponseTexts == {"hello", JSONEcho, JSONRPCReply}

\* what MeasureLatencyBurst can return as response to n text messages
TextBurstResponses(n) ==
    {StringListResponse(<<>>)}
    \cup {StringListResponse(Copies(n, t)) : t \in ResponseTexts}

\* src/unnamed/part_004:159-173: the first response, decoded unless -raw
decodeTextResponse(f, resp) ==
    LET first == IF resp.type = "[]string" /\ Len(resp.items) > 0
                 THEN StringValue(resp.items[1]) ELSE resp
    IN IF ~f.rawOutput /\ first.type = "string"
       THEN jsonUnmarshal(first.text)
       ELSE [err |-> "", v |-> first]

\* src/unnamed/part_004:90-94: what main prints when measureLatency fails
MeasureFailed(e) ==
    /\ stdout' = Append(stdout, <<Lit("Error measuring latency:"), Val(e)>>)
    /\ Exit(1)

\* fmt.Errorf("error unmarshalling JSON message: %v", err) (part_004:169)
UnmarshalError(e) == [msg |-> "error unmarshalling JSON message", url |-> <<>>, err |-> <<e>>]

\* what the go-wsstat call returned: (result, response, err)
Returned(r, resp, e) == [result |-> r, response |-> resp, err |-> e]

\* measureLatency (src/unnamed/part_004:155-199) returns to main (90-94):
\* probe is what the go-wsstat call returned, and result, response, err are
\* what measureLatency returns
MeasureLatencyReturn ==
    /\ pc = "measuring"
    /\ LET call == calls[Len(calls)]
           n == IF call.fn = "MeasureLatencyPingBurst" THEN call.msg ELSE Len(call.msg)
       IN \/ \E e \in TransportErrors :
                /\ probe' = Returned(None, None, GoError(e))
                /\ err' = handleConnectionErrorB(GoError(e), URLString(url))
                /\ MeasureFailed(handleConnectionErrorB(GoError(e), URLString(url)))
                /\ UNCHANGED <<result, response>>
          \/ /\ call.fn = "MeasureLatencyBurst"
             /\ \E r \in ProcResults(url, n) : \E resp \in TextBurstResponses(n) :
                  LET d == decodeTextResponse(flags, resp)
                  IN /\ probe' = Returned(r, resp, None)
                     /\ IF d.err # ""
                        THEN /\ MeasureFailed(UnmarshalError(d.err))
                             /\ err' = UnmarshalError(d.err)
                             /\ UNCHANGED <<result, response>>
                        ELSE /\ result' = r
                             /\ response' = d.v
                             /\ err' = None
                             /\ pc' = "print"
                             /\ UNCHANGED <<stdout, exitCode>>
          \/ /\ call.fn = "MeasureLatencyJSONBurst"
             /\ \E r \in ProcResults(url, n) : \E resp \in MessageResponses :
                  /\ probe' = Returned(r, resp, None)
                  /\ result' = r
                  /\ response' = resp
                  /\ err' = None
                  /\ pc' = "print"
                  /\ UNCHANGED <<stdout, exitCode>>
          \/ /\ call.fn = "MeasureLatencyPingBurst"
             /\ \E r \in ProcResults(url, n) :
                  /\ probe' = Returned(r, None, None)
                  /\ result' = r
                  /\ response' = None
                  /\ err' = None
                  /\ pc' = "print"
                  /\ UNCHANGED <<stdout, exitCode>>
    /\ UNCHANGED <<flags, args, url, header, calls, stderr,
                   wssPrintTemplate, wsPrintTemplate, fnIn, fnOut>>

\* printRequestDetails (src/unnamed/part_004:237-299)
printRequestDetailsB(f, r, reqO, respO) ==
    <<Blank>> \o
    (IF f.basic
     THEN <<<<colorTeaGreen("URL"), Val(Hostname(r.URL))>>>>
          \o (IF Len(r.IPs) > 0 THEN <<<<colorTeaGreen("IP"), Val(r.IPs[1])>>>> ELSE <<>>)
     ELSE IF f.verbose
     THEN <<<<colorWSOrange("Target")>>, <<colorTeaGreen("URL"), Val(Hostname(r.URL))>>>>
          \o [i \in 1..Len(r.IPs) |-> <<colorTeaGreen("IP"), Val(r.IPs[i])>>]
          \o <<<<colorTeaGreen("Messages sent:"), Val(r.MessageCount)>>>>
          \o <<Blank>>
          \o (IF r.TLSState # None
              THEN <<<<colorWSOrange("TLS")>>,
                     <<colorTeaGreen("Version"), Val(r.TLSState.Version)>>,
                     <<colorTeaGreen("Cipher Suite"), Val(r.TLSState.CipherSuite)>>>>
                   \o CertLines(r.TLSState.PeerCertificates)
                   \o <<Blank>>
              ELSE <<>>)
          \o <<<<colorWSOrange("Request headers")>>>>
          \o HeaderLines(r.RequestHeaders, reqO)
          \o <<<<colorWSOrange("Response headers")>>>>
          \o HeaderLines(r.ResponseHeaders, respO)
     ELSE <<<<colorWSOrange("Target"), Val(Hostname(r.URL))>>>>
          \o [i \in 1..Len(r.IPs) |-> <<colorWSOrange("IP"), Val(r.IPs[i])>>]
          \o <<<<colorWSOrange("Messages sent:"), Val(r.MessageCount)>>>>
          \o WSVersionLines(r.RequestHeaders)
          \o (IF r.TLSState # None
              THEN <<<<colorWSOrange("TLS version"), Val(r.TLSState.Version)>>>>
              ELSE <<>>))

\* printTimingResultsBasic (src/unnamed/part_004:347-368)
printTimingResultsBasicB(f, r) ==
    LET rttString == IF f.burst > 1 THEN "Mean round-trip time" ELSE "Round-trip time"
        msgCountString == IF r.MessageCount > 1 THEN "messages" ELSE "message"
    IN <<Blank,
         <<Lit(rttString),
           colorWSOrange(Itoa(r.MessageRoundTrip \div Millisecond) \o <<"m", "s">>),
           Val(r.MessageCount), Lit(msgCountString)>>,
         <<Lit("Total time"),
           colorWSOrange(Itoa(r.TotalTime \div Millisecond) \o <<"m", "s">>)>>,
         Blank>>

\* printTimingResults (src/unnamed/part_004:338-344)
printTimingResultsB(f, wssT, wsT, u, r) ==
    IF f.basic THEN printTimingResultsBasicB(f, r)
    ELSE printTimingResultsTiered(wssT, wsT, u, r)

\* a mutant of printResponseB: the "jsonrpc" key of the response is not looked at
printResponseBNoKeyCheck(f, resp) ==
    IF resp = None THEN <<>>
    ELSE LET baseMessage == IF f.quiet THEN <<>>
                            ELSE <<colorWSOrange("Response"), Lit(": ")>>
         IN (IF f.quiet THEN <<>> ELSE <<Blank>>)
            \o (IF f.rawOutput
                THEN <<baseMessage \o <<NativeText(resp)>>>>
                ELSE CASE resp.type = "map[string]interface{}" ->
                            IF f.jsonMethod # ""
                            THEN <<baseMessage \o <<JSONText(resp)>>>>
                            ELSE <<baseMessage \o <<NativeText(resp)>>>>
                       [] resp.type = "[]interface{}" -> <<baseMessage \o <<NativeText(resp)>>>>
                       [] resp.type = "[]byte" -> <<baseMessage \o <<NativeText(resp)>>>>
                       [] OTHER -> <<>>)
            \o (IF f.quiet THEN <<>> ELSE <<Blank>>)

\* printResponse (src/unnamed/part_004:302-335)
printResponseB(f, resp) ==
    IF resp = None THEN <<>>
    ELSE LET baseMessage == IF f.quiet THEN <<>>
                            ELSE <<colorWSOrange("Response"), Lit(": ")>>
         IN (IF f.quiet THEN <<>> ELSE <<Blank>>)
            \o (IF f.rawOutput
                THEN <<baseMessage \o <<NativeText(resp)>>>>
                ELSE CASE resp.type = "map[string]interface{}" ->
                            IF "jsonrpc" \in resp.keys \/ f.jsonMethod # ""
                            THEN <<baseMessage \o <<JSONText(resp)>>>>
                            ELSE <<baseMessage \o <<NativeText(resp)>>>>
                       [] resp.type = "[]interface{}" -> <<baseMessage \o <<NativeText(resp)>>>>
                       [] resp.type = "[]byte" -> <<baseMessage \o <<NativeText(resp)>>>>
                       [] OTHER -> <<>>)
            \o (IF f.quiet THEN <<>> ELSE <<Blank>>)

\* src/unnamed/part_004:96-103
PrintResultsB ==
    /\ pc = "print"
    /\ IF ~flags.quiet
       THEN \E reqO \in KeyOrders(result.RequestHeaders) :
            \E respO \in KeyOrders(result.ResponseHeaders) :
                stdout' = stdout
                    \o printRequestDetailsB(flags, result, reqO, respO)
                    \o printTimingResultsB(flags, wssPrintTemplate, wsPrintTemplate,
                                           url, result)
       ELSE UNCHANGED stdout
    /\ pc' = "printResponse"
    /\ UNCHANGED <<flags, args, url, header, result, response, calls, stderr,
                   exitCode, wssPrintTemplate, wsPrintTemplate, err, fnIn, fnOut, probe>>

\* src/unnamed/part_004:105-107
PrintResponseB ==
    /\ pc = "printResponse"
    /\ stdout' = stdout \o printResponseB(flags, response)
    /\ Exit(0)
    /\ UNCHANGED <<flags, args, url, header, result, response, calls, stderr,
                   wssPrintTemplate, wsPrintTemplate, err, fnIn, fnOut, probe>>

NextB ==
    \/ ParseValidateInput
    \/ BuildHeadersB
    \/ MeasureLatencyCall
    \/ MeasureLatencyReturn
    \/ PrintResultsB
    \/ PrintResponseB

SpecBurst == InitB /\ [][NextB]_vars

(***************************************************************************)
(* SpecFn: the pure functions applied to inputs drawn from bounded sets.   *)
(***************************************************************************)
\* the verbosity flags and burst counts a report is rendered under
RenderFlags ==
    {f \in [basic : BOOLEAN, verbose : BOOLEAN, burst : 1..2] : ~(f.basic /\ f.verbose)}

\* the templates as parseValidateInput leaves them (part_004:433-436)
TemplateOf(template, f) ==
    IF f.burst > 1 THEN ReplaceFirst(template, "Message RTT", "Mean Message RTT")
    ELSE template

\* src/unnamed/part_004:98-102: the request details and the timing results
Render(f, u, r, reqO, respO) ==
    printRequestDetailsB(f, r, reqO, respO)
    \o printTimingResultsB(f, TemplateOf(WssTemplate, f), TemplateOf(WsTemplate, f), u, r)

FnInputs ==
    {[fn |-> "parseWSURI", rawURI |-> s, insecure |-> b] :
        s \in URIInputs, b \in BOOLEAN}
    \cup {[fn |-> f, headers |-> h] :
        f \in {"parseHeaders", "parseHeadersB"}, h \in HeaderInputs}
    \cup UNION {{[fn |-> "printTimingResultsTiered", url |-> TargetX(sch), result |-> r] :
        r \in ResultsOf(TargetX(sch))} : sch \in RenderSchemes}
    \cup UNION {{[fn |-> "render", flags |-> x[1], url |-> TargetX(x[2]), result |-> r] :
        r \in ProcResults(TargetX(x[2]), x[1].burst)} :
        x \in RenderFlags \X RenderSchemes}

InitFn ==
    /\ fnIn \in FnInputs
    /\ fnOut = None
    /\ pc = "fn"
    /\ flags = None /\ args = <<>> /\ url = None /\ header = None
    /\ result = None /\ response = None /\ err = None /\ calls = <<>>
    /\ stdout = <<>> /\ stderr = <<>> /\ exitCode = None
    /\ wssPrintTemplate = WssTemplate /\ wsPrintTemplate = WsTemplate
    /\ probe = None

procVars == <<pc, flags, args, url, header, result, response, err, calls, stdout, stderr,
              exitCode, wssPrintTemplate, wsPrintTemplate, probe>>

ApplyParseWSURI ==
    /\ fnOut = None /\ fnIn.fn = "parseWSURI"
    /\ fnOut' = parseWSURI(fnIn.rawURI, fnIn.insecure)
    /\ UNCHANGED <<fnIn, procVars>>

ApplyParseHeaders ==
    /\ fnOut = None /\ fnIn.fn = "parseHeaders"
    /\ fnOut' = parseHeaders(fnIn.headers)
    /\ UNCHANGED <<fnIn, procVars>>

ApplyParseHeadersB ==
    /\ fnOut = None /\ fnIn.fn = "parseHeadersB"
    /\ fnOut' = parseHeadersB(fnIn.headers)
    /\ UNCHANGED <<fnIn, procVars>>

ApplyPrintTimingResultsTiered ==
    /\ fnOut = None /\ fnIn.fn = "printTimingResultsTiered"
    /\ fnOut' = printTimingResultsTiered(wssPrintTemplate, wsPrintTemplate,
                                         fnIn.url, fnIn.result)
    /\ UNCHANGED <<fnIn, procVars>>

\* src/unnamed/part_004:98-102 run twice on the same Result: each run ranges
\* over the two header maps in an order of its own
ApplyRenderTwice ==
    /\ fnOut = None /\ fnIn.fn = "render"
    /\ \E reqO1, reqO2 \in KeyOrders(fnIn.result.RequestHeaders) :
       \E respO1, respO2 \in KeyOrders(fnIn.result.ResponseHeaders) :
            fnOut' = <<Render(fnIn.flags, fnIn.url, fnIn.result, reqO1, respO1),
                       Render(fnIn.flags, fnIn.url, fnIn.result, reqO2, respO2)>>
    /\ UNCHANGED <<fnIn, procVars>>

NextFn ==
    \/ ApplyParseWSURI
    \/ ApplyParseHeaders
    \/ ApplyParseHeadersB
    \/ ApplyPrintTimingResultsTiered
    \/ ApplyRenderTwice

SpecFn == InitFn /\ [][NextFn]_vars

(***************************************************************************)
(* Reading a report back: what the printed cells say.                      *)
(***************************************************************************)
DigitValue(c) == CHOOSE d \in 0..9 : DigitChars[d + 1] = c

RECURSIVE Atoi(_)
Atoi(s) ==
    IF s = <<>> THEN 0
    ELSE 10 * Atoi(SubSeq(s, 1, Len(s) - 1)) + DigitValue(s[Len(s)])

\* the whole milliseconds a printed cell ("     10ms" or "10ms    ") shows
ShownMs(cell) ==
    LET t == TrimSpace(cell.text)
    IN Atoi(SubSeq(t, 1, Len(t) - 2))

IsCell(tok) == "rgb" \in DOMAIN tok

\* the printed cells of a line, in order
CellsOf(line) == SelectSeq(line, IsCell)

RECURSIVE SumSeq(_)
SumSeq(q) == IF q = <<>> THEN 0 ELSE Head(q) + SumSeq(Tail(q))

MarkerLabels == {"DNS lookup:", "TCP connected:", "TLS done:", "WS done:", "Total:"}

IsMarkerLabel(tok) == "lit" \in DOMAIN tok /\ tok.lit \in MarkerLabels

IsMarkerLine(line) == \E i \in 1..Len(line) : IsMarkerLabel(line[i])

\* the label of a marker line
MarkerLabel(line) == line[CHOOSE i \in 1..Len(line) : IsMarkerLabel(line[i])].lit

\* the lines of a tiered report: <<blank, header, durations, rule, markers.., blank>>
ReportHeader(out) == [i \in 1..Len(out[2]) |-> out[2][i].lit]
ReportDurations(out) == [i \in 1..Len(CellsOf(out[3])) |-> ShownMs(CellsOf(out[3])[i])]
ReportMarkerLines(out) == SelectSeq(out, IsMarkerLine)
ReportMarkerLabels(out) ==
    [i \in 1..Len(ReportMarkerLines(out)) |-> MarkerLabel(ReportMarkerLines(out)[i])]
ReportMarkers(out) ==
    [i \in 1..Len(ReportMarkerLines(out)) |->
        ShownMs(CellsOf(ReportMarkerLines(out)[i])[1])]
HasLayout(out) == Len(out) > 2

(***************************************************************************)
(* C2: for a raw URI without "://", parseWSURI parses the URI prefixed     *)
(* with wss:// (ws:// under -insecure): whenever it yields a URL the       *)
(* scheme is wss (ws), and it does yield one for every bare host name; a   *)
(* raw URI with "://" is parsed as given, whatever the insecure flag.      *)
(***************************************************************************)
SchemeSep == <<":", "/", "/">>

IsBareHost(s) ==
    /\ s # <<>>
    /\ \A i \in 1..Len(s) : s[i] \in LowerLetters \cup UpperLetters \cup Digits \cup {".", "-"}

C2_ParseWSURIScheme ==
    (fnIn.fn = "parseWSURI" /\ fnOut # None) =>
        LET s == fnIn.rawURI
            want == IF fnIn.insecure THEN SchemeWS ELSE SchemeWSS
        IN /\ (~Contains(s, SchemeSep) /\ fnOut.err = "") => fnOut.u.Scheme = want
           /\ (~Contains(s, SchemeSep) /\ IsBareHost(s)) =>
                    /\ fnOut.err = ""
                    /\ fnOut.u.Scheme = want
                    /\ fnOut.u.Host = s
           /\ Contains(s, SchemeSep) =>
                    /\ fnOut = urlParse(s)
                    /\ fnOut.err = "" => fnOut.u.Scheme = ToLower(getScheme(s).scheme)

C2_Witness ==
    /\ fnIn.fn = "parseWSURI" /\ fnOut # None
    /\ fnIn.rawURI = Str_example_org /\ fnIn.insecure
    /\ fnOut.err = "" /\ fnOut.u.Scheme = SchemeWS

(***************************************************************************)
(* C5: for a header spec in which every comma-separated segment has a      *)
(* colon, parseHeaders yields one value per segment, filed under the       *)
(* (canonical form of the) trimmed text before the first colon, the value  *)
(* being the trimmed text after the first colon, further colons kept.      *)
(***************************************************************************)
\* what the claim says the header set of the segments is
RECURSIVE FirstColonHeader(_, _)
FirstColonHeader(segments, h) ==
    IF segments = <<>> THEN h
    ELSE LET seg == Head(segments)
             i == Index(seg, <<":">>)
         IN FirstColonHeader(Tail(segments),
                HeaderAdd(h, TrimSpace(SubSeq(seg, 1, i - 1)), TrimSpace(Tail_(seg, i + 1))))

Segments(spec) == Split(spec, <<",">>)

EverySegmentHasColon(spec) ==
    \A i \in 1..Len(Segments(spec)) : Contains(Segments(spec)[i], <<":">>)

C5_HeadersSplitOnFirstColon ==
    (fnIn.fn = "parseHeaders" /\ fnOut # None /\ EverySegmentHasColon(fnIn.headers)) =>
        /\ ~fnOut.fatal
        /\ fnOut.header = FirstColonHeader(Segments(fnIn.headers), EmptyHeader)

(***************************************************************************)
(* C6: parseHeaders ends the process (log.Fatalf, no header set returned)  *)
(* whenever a segment of a non-empty spec has no colon, an empty segment   *)
(* included; when it returns, every segment has filed exactly one value;   *)
(* the empty spec yields the empty header set without error.               *)
(***************************************************************************)
RECURSIVE CountValues(_, _)
CountValues(h, keys) ==
    IF keys = {} THEN 0
    ELSE LET k == CHOOSE x \in keys : TRUE
         IN Len(h[k]) + CountValues(h, keys \ {k})

C6_HeadersFailHard ==
    (fnIn.fn \in {"parseHeaders", "parseHeadersB"} /\ fnOut # None) =>
        LET spec == fnIn.headers
        IN /\ spec = <<>> => (~fnOut.fatal /\ fnOut.header = EmptyHeader)
           /\ (spec # <<>> /\ ~EverySegmentHasColon(spec)) =>
                    (fnOut.fatal /\ fnOut.header = None)
           /\ ~fnOut.fatal =>
                    CountValues(fnOut.header, DOMAIN fnOut.header) =
                        IF spec = <<>> THEN 0 ELSE Len(Segments(spec))

C6_Witness ==
    /\ fnIn.fn = "parseHeaders" /\ fnOut # None
    /\ fnIn.headers = <<"a", ":", "B", ",">>
    /\ fnOut.fatal /\ fnOut.part = <<>>

(***************************************************************************)
(* C8: in a tiered report the phase durations as printed (whole            *)
(* milliseconds) sum to the Total marker as printed, for a Result whose    *)
(* exact phase durations sum to its total time.                            *)
(***************************************************************************)
C8_RenderedSumIsTotal ==
    (/\ fnIn.fn = "printTimingResultsTiered" /\ fnOut # None
     /\ HasLayout(fnOut)
     /\ LET r == fnIn.result
        IN r.DNSLookup + r.TCPConnection + r.TLSHandshake + r.WSHandshake
              + r.MessageRoundTrip = r.TotalTime)
    => SumSeq(ReportDurations(fnOut))
          = ReportMarkers(fnOut)[Len(ReportMarkers(fnOut))]

(***************************************************************************)
(* C9: the tiered report has the 5-phase layout exactly for the wss        *)
(* scheme and the 4-phase layout (no TLS) exactly for the ws scheme; its   *)
(* markers are, in this order, DNS lookup, TCP connected, [TLS done,] WS   *)
(* done, Total, each showing the Result's done-at field; the example       *)
(* Result on wss shows 10, 30, 60, 75, 80.                                 *)
(***************************************************************************)
C9_TieredLayout ==
    (fnIn.fn = "printTimingResultsTiered" /\ fnOut # None) =>
        LET r == fnIn.result
            sch == fnIn.url.Scheme
        IN /\ sch = SchemeWSS <=>
                (/\ HasLayout(fnOut)
                 /\ ReportHeader(fnOut) = <<"DNS Lookup", "TCP Connection",
                        "TLS Handshake", "WS Handshake", "Message RTT">>)
           /\ sch = SchemeWS <=>
                (/\ HasLayout(fnOut)
                 /\ ReportHeader(fnOut) = <<"DNS Lookup", "TCP Connection",
                        "WS Handshake", "Message RTT">>)
           /\ sch = SchemeWSS =>
                /\ ReportMarkerLabels(fnOut) = <<"DNS lookup:", "TCP connected:",
                        "TLS done:", "WS done:", "Total:">>
                /\ ReportMarkers(fnOut) = <<r.DNSLookupDone \div Millisecond,
                        r.TCPConnected \div Millisecond,
                        r.TLSHandshakeDone \div Millisecond,
                        r.WSHandshakeDone \div Millisecond,
                        r.TotalTime \div Millisecond>>
                /\ ReportDurations(fnOut) = <<r.DNSLookup \div Millisecond,
                        r.TCPConnection \div Millisecond,
                        r.TLSHandshake \div Millisecond,
                        r.WSHandshake \div Millisecond,
                        r.MessageRoundTrip \div Millisecond>>
                /\ r = ExampleResult(fnIn.url) =>
                        ReportMarkers(fnOut) = <<10, 30, 60, 75, 80>>
           /\ sch = SchemeWS =>
                /\ ReportMarkerLabels(fnOut) = <<"DNS lookup:", "TCP connected:",
                        "WS done:", "Total:">>
                /\ ReportMarkers(fnOut) = <<r.DNSLookupDone \div Millisecond,
                        r.TCPConnected \div Millisecond,
                        r.WSHandshakeDone \div Millisecond,
                        r.TotalTime \div Millisecond>>
                /\ ReportDurations(fnOut) = <<r.DNSLookup \div Millisecond,
                        r.TCPConnection \div Millisecond,
                        r.WSHandshake \div Millisecond,
                        r.MessageRoundTrip \div Millisecond>>

C9_Witness ==
    /\ fnIn.fn = "printTimingResultsTiered" /\ fnOut # None
    /\ fnIn.url.Scheme = SchemeWSS
    /\ fnIn.result = ExampleResult(fnIn.url)
    /\ ReportMarkers(fnOut) = <<10, 30, 60, 75, 80>>

(***************************************************************************)
(* C1: an invocation (without -version, which is handled before any        *)
(* validation) that has an input error -- -text and -json both set, two of *)
(* -b -v -q set, not exactly one positional argument, a malformed URI, a   *)
(* header segment without a colon -- never makes the measurement call:     *)
(* before and after every step it takes no call is recorded and no result  *)
(* held, each step moves it on towards the exit (from main to parseHeaders *)
(* or the exit, from parseHeaders to the exit), and once exited it has an  *)
(* error status and has printed an error.                                  *)
(***************************************************************************)
HasInputError(f, a) ==
    \/ f.textMessage # "" /\ f.jsonMethod # ""
    \/ Cardinality({x \in {"b", "v", "q"} :
            \/ x = "b" /\ f.basic
            \/ x = "v" /\ f.verbose
            \/ x = "q" /\ f.quiet}) >= 2
    \/ Len(a) # 1
    \/ Len(a) = 1 /\ urlParse(
            IF Contains(a[1], SchemeSep) THEN a[1]
            ELSE (IF f.insecure THEN SchemeWS ELSE SchemeWSS) \o SchemeSep \o a[1]).err # ""
    \/ f.inputHeaders # <<>> /\ ~EverySegmentHasColon(f.inputHeaders)

NoMeasurementYet ==
    /\ calls = <<>>
    /\ result = None
    /\ pc \in {"main", "parseHeaders", "exit"}
    /\ pc = "exit" =>
        /\ exitCode \in {1, 2}
        /\ stdout \o stderr # <<>>

C1_InputErrorNoMeasurement ==
    [][(~flags.showVersion /\ HasInputError(flags, args)) =>
            /\ NoMeasurementYet
            /\ NoMeasurementYet'
            /\ pc = "main" => pc' \in {"parseHeaders", "exit"}
            /\ pc = "parseHeaders" => pc' = "exit"]_vars

C1_Witness ==
    /\ pc = "exit" /\ exitCode = 1 /\ calls = <<>>
    /\ ~flags.showVersion
    /\ flags.textMessage # "" /\ flags.jsonMethod # ""
    /\ ~flags.basic /\ ~flags.verbose /\ ~flags.quiet
    /\ Len(args) = 1

(***************************************************************************)
(* C3: once URI resolution has succeeded, the scheme of the target is ws   *)
(* or wss, whatever the input was.                                         *)
(***************************************************************************)
C3_SchemeIsWsOrWss ==
    url # None => url.Scheme \in {SchemeWS, SchemeWSS}

(***************************************************************************)
(* C4: an invocation exits with status 0 on success or version print,      *)
(* with status 2 and the usage text on a usage or validation error (flag   *)
(* conflict, wrong argument count, malformed URI, malformed header spec),  *)
(* and with status 1 and no usage text on a failed measurement.            *)
(***************************************************************************)
UsagePrinted == \E i \in 1..Len(stderr) : stderr[i] = Usage

HasUsageError(f, a) ==
    \/ f.basic /\ f.verbose
    \/ f.textMessage # "" /\ f.jsonMessage # ""
    \/ Len(a) # 1
    \/ Len(a) = 1 /\ urlParse(
            IF Contains(a[1], SchemeSep) THEN a[1]
            ELSE (IF f.insecure THEN SchemeWS ELSE SchemeWSS) \o SchemeSep \o a[1]).err # ""
    \/ f.inputHeaders # <<>> /\ ~EverySegmentHasColon(f.inputHeaders)

C4_ExitCodes ==
    pc = "exit" =>
        /\ exitCode \in {0, 1, 2}
        /\ flags.showVersion => exitCode = 0
        /\ (~flags.showVersion /\ HasUsageError(flags, args)) =>
                (exitCode = 2 /\ UsagePrinted)
        /\ err # None => (exitCode = 1 /\ ~UsagePrinted)
        /\ result # None => exitCode = 0

(***************************************************************************)
(* C7: an invocation with -burst 0 or a negative -burst is rejected as an  *)
(* input error before any measurement call is made, whatever the mode.     *)
(***************************************************************************)
C7_BurstMustBePositive ==
    (~flags.showVersion /\ flags.burst < 1) =>
        /\ calls = <<>>
        /\ pc = "exit" => exitCode # 0

(***************************************************************************)
(* C10: when the measurement call fails, the process prints one message    *)
(* that carries the raw error and the target URL and exits with status 1;  *)
(* the message recommends the -insecure flag or the correct scheme exactly *)
(* when the raw error contains the TLS diagnostic "tls: first record does  *)
(* not look like a TLS handshake".                                         *)
(***************************************************************************)
HasTLSDiagnostic(e) ==
    \E i \in 1..Len(e) :
        /\ i + Len(TLSDiagnostic) - 1 <= Len(e)
        /\ \A k \in 1..Len(TLSDiagnostic) : e[i + k - 1] = TLSDiagnostic[k]

IsLit(tok, t) == "lit" \in DOMAIN tok /\ tok.lit = t
IsVal(tok, v) == "val" \in DOMAIN tok /\ tok.val = v

\* the printed lines of out that carry the literal text t
LinesWithLit(out, t) ==
    {i \in 1..Len(out) : \E j \in 1..Len(out[i]) : IsLit(out[i][j], t)}

\* the printed lines of out that carry the colored label t
LinesWithLabel(out, t) ==
    {i \in 1..Len(out) : \E j \in 1..Len(out[i]) :
        "rgb" \in DOMAIN out[i][j] /\ out[i][j].text = t}

\* how often the token t occurs in a template
CountToken(template, t) ==
    Cardinality({ij \in (1..Len(template)) \X (1..8) :
        ij[2] <= Len(template[ij[1]]) /\ template[ij[1]][ij[2]] = t})

LabelsSubstituted(template) ==
    /\ CountToken(template, "Mean Message RTT") = 1
    /\ CountToken(template, "Message RTT") = 0

Rendered == pc = "exit" /\ result # None /\ ~flags.quiet

C11_BurstMeanLabel ==
    (~flags.showVersion /\ flags.burst >= 1) =>
        /\ (pc = "main" \/ url = None) =>
                (wssPrintTemplate = WssTemplate /\ wsPrintTemplate = WsTemplate)
        /\ (pc # "main" /\ url # None /\ flags.burst = 1) =>
                (wssPrintTemplate = WssTemplate /\ wsPrintTemplate = WsTemplate)
        /\ (pc # "main" /\ url # None /\ flags.burst > 1) =>
                /\ LabelsSubstituted(wssPrintTemplate)
                /\ LabelsSubstituted(wsPrintTemplate)
                /\ Len(wssPrintTemplate) = Len(WssTemplate)
                /\ Len(wsPrintTemplate) = Len(WsTemplate)
        /\ (calls # <<>> \/ result # None) => pc # "main" /\ url # None
        /\ (Rendered /\ flags.basic) =>
                LET mean == LinesWithLit(stdout, "Mean round-trip time")
                    single == LinesWithLit(stdout, "Round-trip time")
                IN /\ Cardinality(mean \cup single) = 1
                   /\ (mean # {}) <=> (flags.burst > 1)
                   /\ \A i \in mean \cup single :
                        \E j \in 1..Len(stdout[i]) : IsVal(stdout[i][j], flags.burst)
        /\ (Rendered /\ ~flags.basic) =>
                LET mean == LinesWithLit(stdout, "Mean Message RTT")
                    single == LinesWithLit(stdout, "Message RTT")
                    sent == LinesWithLabel(stdout, "Messages sent:")
                IN /\ url.Scheme \in {SchemeWS, SchemeWSS} =>
                        /\ Cardinality(mean \cup single) = 1
                        /\ (mean # {}) <=> (flags.burst > 1)
                   /\ Cardinality(sent) = 1
                   /\ \A i \in sent :
                        \E j \in 1..Len(stdout[i]) : IsVal(stdout[i][j], flags.burst)

\* -burst 5 in ping mode: the tiered report reads "Mean Message RTT", 5 messages
C11_Witness ==
    /\ Rendered /\ exitCode = 0
    /\ flags.burst = 5 /\ flags.textMessage = "" /\ flags.jsonMethod = ""
    /\ ~flags.basic /\ ~flags.verbose
    /\ LinesWithLit(stdout, "Mean Message RTT") # {}
    /\ \E i \in LinesWithLabel(stdout, "Messages sent:") :
            \E j \in 1..Len(stdout[i]) : IsVal(stdout[i][j], 5)

(***************************************************************************)
(* C12: in basic mode the timing report of a successful invocation shows   *)
(* only the total time when the burst count is 1; it shows a round-trip    *)
(* line exactly when the burst count exceeds 1.                            *)
(***************************************************************************)
RoundTripLines(out) ==
    LinesWithLit(out, "Round-trip time") \cup LinesWithLit(out, "Mean round-trip time")

C12_BasicOnlyTotal ==
    (Rendered /\ flags.basic /\ flags.burst >= 1) =>
        /\ Cardinality(LinesWithLit(stdout, "Total time")) = 1
        /\ (RoundTripLines(stdout) # {}) <=> (flags.burst > 1)

(***************************************************************************)
(* C13: of a successful invocation, what is printed of the response is:    *)
(* nothing when there is no response; under -raw the value in native form; *)
(* otherwise, for a key-value object, its JSON encoding exactly when -json *)
(* (the method flag) is set or the object has a "jsonrpc" key and its      *)
(* native form if not; for a sequence or a byte payload the native form.   *)
(* In each case one payload is printed, and none is printed twice.         *)
(***************************************************************************)
IsPayload(tok) == "enc" \in DOMAIN tok

\* the payloads printed on the lines of out, in order
RECURSIVE PayloadsOf(_)
PayloadsOf(out) ==
    IF out = <<>> THEN <<>>
    ELSE SelectSeq(Head(out), IsPayload) \o PayloadsOf(Tail(out))

C14_ResponseOnlyOutput ==
    (pc = "exit" /\ exitCode = 0 /\ result # None /\ flags.responseOnly) =>
        /\ Len(stdout) <= 1
        /\ \A i \in 1..Len(stdout) : Len(stdout[i]) = 1 /\ IsPayload(stdout[i][1])
        /\ response = None => stdout = <<>>
        /\ stderr = <<>>

(***************************************************************************)
(* C15: printing the request details and the timing results of one Result  *)
(* twice, under the same flags and templates, gives the same lines both    *)
(* times, in the standard, basic and verbose modes, with or without the    *)
(* burst label substituted.                                                *)
(***************************************************************************)
C15_RenderTwiceSame ==
    (fnIn.fn = "render" /\ fnOut # None) => fnOut[1] = fnOut[2]

(***************************************************************************)
(* C16: once the go-wsstat call has returned, measureLatency has returned  *)
(* one triple for the one call made: if the call succeeded the error is    *)
(* absent and the Result is the call's; if the call failed the Result and  *)
(* the response are absent and the error is the call's own error; a Result *)
(* and an error are never returned together.                               *)
(***************************************************************************)
C16_InvokerTriple ==
    probe # None =>
        /\ Len(calls) = 1
        /\ probe.err = None => (err = None /\ result = probe.result /\ result # None)
        /\ probe.err # None => (result = None /\ response = None /\ err = probe.err)
        /\ ~(result # None /\ err # None)

(***************************************************************************)
(* C17: with -version set, the only step the invocation takes is the one   *)
(* from the start of main to the exit: it prints the version line and      *)
(* nothing else, exits with status 0, and has parsed no URI and no header, *)
(* made no measurement call and holds no Result, whatever the other flags  *)
(* and the arguments are.                                                  *)
(***************************************************************************)
VersionLine == <<Lit("Version:"), Val("unknown")>>

C17_VersionBypassesAll ==
    [][flags.showVersion =>
            /\ pc = "main" /\ pc' = "exit"
            /\ exitCode' = 0
            /\ stdout' = <<VersionLine>>
            /\ stderr' = <<>>
            /\ url' = None /\ header' = None
            /\ calls' = <<>> /\ result' = None /\ response' = None /\ err' = None]_vars

\* the version is printed although the flags conflict and no URI is given
C17_Witness ==
    /\ pc = "exit" /\ exitCode = 0 /\ stdout = <<VersionLine>>
    /\ flags.showVersion /\ flags.basic /\ flags.verbose
    /\ flags.textMessage # "" /\ flags.jsonMessage # ""
    /\ args = <<>>

(***************************************************************************)
(* C18: at most one measurement call is made in an execution; once the     *)
(* call has failed the process has exited, with that one call made, no     *)
(* Result, a non-zero status and the error reported on standard error.     *)
(***************************************************************************)
ErrorReported(out, e) ==
    \E i \in 1..Len(out) : \E j \in 1..Len(out[i]) :
        "err" \in DOMAIN out[i][j] /\ out[i][j].err = e.Error

C18_OneShotNoRetry ==
    /\ Len(calls) <= 1
    /\ err # None =>
            /\ Len(calls) = 1
            /\ pc = "exit" /\ exitCode = 1
            /\ ErrorReported(stderr, err)
            /\ result = None /\ response = None

C18_Witness ==
    /\ err = GoError(<<"dial", "tcp:", "connection", "refused">>)
    /\ pc = "exit" /\ exitCode = 1 /\ Len(calls) = 1
    /\ calls[1].fn = "MeasureLatencyPing"
    /\ ErrorReported(stderr, err)

(***************************************************************************)
(* C19: the one call that is made is the ping call, given the burst count  *)
(* and no message, when neither -text nor -json is set; the text call with *)
(* exactly burst-count copies of the text when -text is set; the JSON call *)
(* with exactly burst-count copies of the envelope {method, id "1",        *)
(* jsonrpc "2.0"} when -json is set; and it is given the URL that          *)
(* parseWSURI returned and the header set that parseHeaders returned.      *)
(***************************************************************************)
C19_Dispatch ==
    calls # <<>> =>
        LET c == calls[1]
            n == flags.burst
            text == flags.textMessage
            method == flags.jsonMethod
        IN /\ Len(calls) = 1
           /\ c.url = parseWSURI(args[1], flags.insecure).u
           /\ c.header = parseHeadersB(flags.inputHeaders).header
           /\ (text = "" /\ method = "") =>
                    (c.fn = "MeasureLatencyPingBurst" /\ c.msg = n)
           /\ text # "" =>
                    /\ c.fn = "MeasureLatencyBurst"
                    /\ Len(c.msg) = n
                    /\ \A i \in 1..Len(c.msg) : c.msg[i] = text
           /\ (text = "" /\ method # "") =>
                    /\ c.fn = "MeasureLatencyJSONBurst"
                    /\ Len(c.msg) = n
                    /\ \A i \in 1..Len(c.msg) :
                            c.msg[i] = [method |-> method, id |-> "1", jsonrpc |-> "2.0"]

C19_Witness ==
    /\ Len(calls) = 1 /\ pc = "measuring"
    /\ flags.burst = 3 /\ flags.jsonMethod = "m" /\ flags.textMessage = ""
    /\ flags.inputHeaders = <<"a", ":", "1">>
    /\ calls[1].fn = "MeasureLatencyJSONBurst"
    /\ Len(calls[1].msg) = 3
    /\ calls[1].header # EmptyHeader

(***************************************************************************)
(* C20: nothing of the report is on standard output until the measurement  *)
(* call has returned a Result; when the call has failed, standard output   *)
(* stays empty and standard error holds the error message alone; when the  *)
(* invocation has exited after a successful call, the request details come *)
(* before the timing results and these before the response, and the        *)
(* request details and timing results are there unless -ro suppressed them.*)
(***************************************************************************)
DetailLines(out) == LinesWithLabel(out, "Target") \cup LinesWithLabel(out, "URL")
TimingLines(out) == LinesWithLit(out, "Total:") \cup LinesWithLit(out, "Total time")
ResponseLines(out) ==
    LinesWithLabel(out, "Response")
    \cup {i \in 1..Len(out) : \E j \in 1..Len(out[i]) : IsPayload(out[i][j])}
ReportLines(out) == DetailLines(out) \cup TimingLines(out) \cup ResponseLines(out)

C20_MeasureBeforeRender ==
    /\ result = None => ReportLines(stdout) = {}
    /\ err # None => (stdout = <<>> /\ Len(stderr) = 1)
    /\ (result # None /\ pc = "print") => (stdout = <<>> /\ Len(calls) = 1)
    /\ (result # None /\ pc = "printResponse") => ResponseLines(stdout) = {}
    /\ (result # None /\ pc = "exit") =>
            /\ \A d \in DetailLines(stdout) : \A t \in TimingLines(stdout) : d < t
            /\ \A t \in DetailLines(stdout) \cup TimingLines(stdout) :
                    \A r \in ResponseLines(stdout) : t < r
            /\ (~flags.responseOnly \/ response = None) =>
                    /\ DetailLines(stdout) # {}
                    /\ (flags.basic \/ url.Scheme \in {SchemeWS, SchemeWSS}) =>
                            TimingLines(stdout) # {}

C20_Witness ==
    /\ pc = "exit" /\ exitCode = 0 /\ result # None
    /\ ~flags.responseOnly /\ flags.verbose
    /\ response = MapResponse({"echo"})
    /\ DetailLines(stdout) # {} /\ TimingLines(stdout) # {} /\ ResponseLines(stdout) # {}

====
